---------------------------- MODULE Spec2Model ----------------------------
(***************************************************************************)
(* Model of detect_spi_devices.py: the MAX6675 detector for SPI bus 0 with *)
(* two manually driven chip-select lines.                                  *)
(*                                                                         *)
(* main() sets the two CS pins up idle-high, runs detect_max6675(0) and    *)
(* detect_max6675(1) one after the other and releases the pins.  Each      *)
(* detect_max6675 call is modelled step by step (pc), every I/O call is    *)
(* one step that either succeeds or raises a Python exception, and the     *)
(* try/except/finally of detect_max6675 is modelled by the steps Except    *)
(* and Finally.                                                            *)
(***************************************************************************)
EXTENDS Integers, Sequences, FiniteSets

VARIABLES
    pc,         \* position of the program
    cur,        \* cs_index of the running detect_max6675 call
    cs,         \* level of the two chip-select pins, by cs_index
    spi_open,   \* whether the SpiDev handle holds an open descriptor
    exc,        \* the exception in flight, NoExc when there is none
    wire,       \* the fields the device put on MISO in the last exchange
    raw_bytes,  \* the list returned by spi.xfer2
    raw,        \* the word returned by read_max6675_raw
    parsed,     \* the dict returned by parse_max6675
    node,       \* what os.path.exists(dev_node) answered in the running call
    result,     \* the result dict of the running detect_max6675 call
    results,    \* main's results list, as far as it is built
    events      \* the I/O calls made so far, <<call, cs_index>>, in order

vars == <<pc, cur, cs, spi_open, exc, wire, raw_bytes, raw, parsed, node,
          result, results, events>>

-----------------------------------------------------------------------------
(* Configuration                                                           *)

SPI_BUS == 0

CS_PINS == [i \in {0, 1} |-> IF i = 0 THEN 8 ELSE 7]

\* f"/dev/spidev{SPI_BUS}.0"
DevNode == "/dev/spidev0.0"

\* Python's None, and a present value: optional fields are sequences of
\* length 0 or 1.
None == <<>>

Some(x) == <<x>>

-----------------------------------------------------------------------------
(* Exceptions                                                              *)

NoExc == [kind |-> "none", msg |-> ""]

\* Descriptions an exception may carry (str(e)); the first MaxMsgs are used.
MsgTexts == <<"Input/output error", "Operation not permitted",
              "Device or resource busy", "No such device">>

MaxMsgs == 2

Msgs == {MsgTexts[k] : k \in 1..MaxMsgs}

\* The direct base class of each exception class the I/O calls raise.
BaseOf(k) ==
    CASE k = "PermissionError"   -> "OSError"
      [] k = "FileNotFoundError" -> "OSError"
      [] k = "OSError"           -> "Exception"
      [] k = "AttributeError"    -> "Exception"
      [] k = "RuntimeError"      -> "Exception"
      [] OTHER                   -> "object"

\* isinstance(e, cls): the class hierarchy is at most three deep.
IsInstance(k, cls) ==
    \/ k = cls
    \/ BaseOf(k) = cls
    \/ BaseOf(BaseOf(k)) = cls

\* What each I/O call can raise.
OpenRaises   == {"PermissionError", "FileNotFoundError", "OSError"}
ConfigRaises == {"OSError", "AttributeError"}
GpioRaises   == {"RuntimeError"}
XferRaises   == {"PermissionError", "OSError", "RuntimeError"}

Raised(kinds) == [kind : kinds, msg : Msgs]

-----------------------------------------------------------------------------
(* The word on the wire                                                    *)

\* A 16-bit word by its fields, MSB first: D15 sign, D14-D3 count, D2 open
\* thermocouple, D1 device id, D0 tri-state.
EncodeWord(f) ==
    f.sign * 32768 + f.count * 8 + f.open * 4 + f.id * 2 + f.d0

F(s, c, o, i, z) == [sign |-> s, count |-> c, open |-> o, id |-> i, d0 |-> z]

\* Every 16-bit word.
AllFields == [sign : {0, 1}, count : 0..4095, open : {0, 1}, id : {0, 1}, d0 : {0, 1}]

\* The words a device answers with in a scan: the two sentinels, and words
\* on each side of every classification rule.
SampleFields ==
    { F(1, 4095, 1, 1, 1),   \* 0xFFFF
      F(0, 0, 0, 0, 0),      \* 0x0000
      F(1, 0, 0, 0, 0),      \* 0x8000
      F(1, 0, 0, 1, 0),      \* 0x8002
      F(1, 4095, 1, 1, 0),   \* 0xFFFE
      F(0, 0, 0, 1, 0),      \* 0x0002
      F(0, 0, 1, 1, 0),      \* 0x0006
      F(0, 0, 1, 0, 0),      \* 0x0004
      F(0, 403, 0, 0, 0),    \* 0x0C98
      F(0, 0, 0, 0, 1),      \* 0x0001
      F(0, 4095, 0, 0, 0) }  \* 0x7FF8

-----------------------------------------------------------------------------
(* parse_max6675                                                           *)

\* raw >> n, for raw >= 0.
Shr(x, n) == x \div (2 ^ n)

HexDigits == <<"0", "1", "2", "3", "4", "5", "6", "7",
               "8", "9", "A", "B", "C", "D", "E", "F">>

\* f"0x{raw:04X}": at least four upper-case hex digits after the prefix.
RawHex(w) ==
    <<"0x">> \o [i \in 1..4 |-> HexDigits[(Shr(w, 4 * (4 - i)) % 16) + 1]]

\* f"{raw:016b}": sixteen binary digits, MSB first.
RawBin(w) == [i \in 1..16 |-> Shr(w, 16 - i) % 2]

\* temp_c and temp_f are kept in hundredths of a degree:
\* counts * 0.25 is counts * 25 hundredths, and c * 9 / 5 + 32 is
\* counts * 45 + 3200 hundredths.
\* parse_max6675 with the count masked to eleven bits (0x7FF for 0xFFF).
parse_max6675_Mask11(w) ==
    LET temp_counts == Shr(w, 3) % 2048
    IN  [ d15           |-> Shr(w, 15) % 2,
          temp_counts   |-> temp_counts,
          open_flag     |-> Shr(w, 2) % 2,
          device_id_bit |-> Shr(w, 1) % 2,
          temp_c        |-> temp_counts * 25,
          temp_f        |-> temp_counts * 45 + 3200,
          raw_hex       |-> RawHex(w),
          raw_bin       |-> RawBin(w) ]

\* parse_max6675 with the count taken from raw >> 2.
parse_max6675_CountShift2(w) ==
    LET temp_counts == Shr(w, 2) % 4096
    IN  [ d15           |-> Shr(w, 15) % 2,
          temp_counts   |-> temp_counts,
          open_flag     |-> Shr(w, 2) % 2,
          device_id_bit |-> Shr(w, 1) % 2,
          temp_c        |-> temp_counts * 25,
          temp_f        |-> temp_counts * 45 + 3200,
          raw_hex       |-> RawHex(w),
          raw_bin       |-> RawBin(w) ]

parse_max6675(w) ==
    LET temp_counts == Shr(w, 3) % 4096
    IN  [ d15           |-> Shr(w, 15) % 2,
          temp_counts   |-> temp_counts,
          open_flag     |-> Shr(w, 2) % 2,
          device_id_bit |-> Shr(w, 1) % 2,
          temp_c        |-> temp_counts * 25,
          temp_f        |-> temp_counts * 45 + 3200,
          raw_hex       |-> RawHex(w),
          raw_bin       |-> RawBin(w) ]

-----------------------------------------------------------------------------
(* detect_max6675: the classification of a received word                   *)

\* A note is its fixed text and the values formatted into it.
Note(text, arg) == [text |-> text, arg |-> arg]

NoteFloating == Note("Response is 0xFFFF -- MISO is floating (all high). ", <<>>)

NoteStuckLow == Note("Response is 0x0000 -- MISO is stuck low. ", <<>>)

NoteD15(p) == Note("D15 must always be 0 for MAX6675 but was 1 (raw=", p.raw_hex)

NoteDeviceId(p) == Note("D1 (device ID) must be 0 for MAX6675 but was 1 (raw=", p.raw_hex)

NoteOpen == Note("MAX6675 is responding correctly (D15=0, D1=0), but D2=1 ", <<>>)

NoteOk == Note("Valid temperature reading received.", <<>>)

\* The chain with the field checks ahead of the two sentinel words.
Classify_FieldsFirst(w, p) ==
    IF p.d15 # 0 THEN
        [status |-> "INVALID RESPONSE", notes |-> NoteD15(p),
         device_found |-> FALSE, thermocouple_ok |-> FALSE]
    ELSE IF p.device_id_bit # 0 THEN
        [status |-> "WRONG DEVICE", notes |-> NoteDeviceId(p),
         device_found |-> FALSE, thermocouple_ok |-> FALSE]
    ELSE IF w = 65535 THEN
        [status |-> "NOT DETECTED", notes |-> NoteFloating,
         device_found |-> FALSE, thermocouple_ok |-> FALSE]
    ELSE IF w = 0 THEN
        [status |-> "NOT DETECTED", notes |-> NoteStuckLow,
         device_found |-> FALSE, thermocouple_ok |-> FALSE]
    ELSE IF p.open_flag = 1 THEN
        [status |-> "DETECTED -- THERMOCOUPLE OPEN", notes |-> NoteOpen,
         device_found |-> TRUE, thermocouple_ok |-> FALSE]
    ELSE
        [status |-> "DETECTED -- OK", notes |-> NoteOk,
         device_found |-> TRUE, thermocouple_ok |-> TRUE]

\* The chain with the 0x0000 branch carrying the 0xFFFF branch's note.
Classify_CopiedNote(w, p) ==
    IF w = 65535 \/ w = 0 THEN
        [status |-> "NOT DETECTED", notes |-> NoteFloating,
         device_found |-> FALSE, thermocouple_ok |-> FALSE]
    ELSE IF p.d15 # 0 THEN
        [status |-> "INVALID RESPONSE", notes |-> NoteD15(p),
         device_found |-> FALSE, thermocouple_ok |-> FALSE]
    ELSE IF p.device_id_bit # 0 THEN
        [status |-> "WRONG DEVICE", notes |-> NoteDeviceId(p),
         device_found |-> FALSE, thermocouple_ok |-> FALSE]
    ELSE IF p.open_flag = 1 THEN
        [status |-> "DETECTED -- THERMOCOUPLE OPEN", notes |-> NoteOpen,
         device_found |-> TRUE, thermocouple_ok |-> FALSE]
    ELSE
        [status |-> "DETECTED -- OK", notes |-> NoteOk,
         device_found |-> TRUE, thermocouple_ok |-> TRUE]

\* The chain with the device-id check ahead of the D15 check.
Classify_IdFirst(w, p) ==
    IF w = 65535 THEN
        [status |-> "NOT DETECTED", notes |-> NoteFloating,
         device_found |-> FALSE, thermocouple_ok |-> FALSE]
    ELSE IF w = 0 THEN
        [status |-> "NOT DETECTED", notes |-> NoteStuckLow,
         device_found |-> FALSE, thermocouple_ok |-> FALSE]
    ELSE IF p.device_id_bit # 0 THEN
        [status |-> "WRONG DEVICE", notes |-> NoteDeviceId(p),
         device_found |-> FALSE, thermocouple_ok |-> FALSE]
    ELSE IF p.d15 # 0 THEN
        [status |-> "INVALID RESPONSE", notes |-> NoteD15(p),
         device_found |-> FALSE, thermocouple_ok |-> FALSE]
    ELSE IF p.open_flag = 1 THEN
        [status |-> "DETECTED -- THERMOCOUPLE OPEN", notes |-> NoteOpen,
         device_found |-> TRUE, thermocouple_ok |-> FALSE]
    ELSE
        [status |-> "DETECTED -- OK", notes |-> NoteOk,
         device_found |-> TRUE, thermocouple_ok |-> TRUE]

\* The chain with the open-thermocouple branch marking the reading good.
Classify_OpenIsOk(w, p) ==
    IF w = 65535 THEN
        [status |-> "NOT DETECTED", notes |-> NoteFloating,
         device_found |-> FALSE, thermocouple_ok |-> FALSE]
    ELSE IF w = 0 THEN
        [status |-> "NOT DETECTED", notes |-> NoteStuckLow,
         device_found |-> FALSE, thermocouple_ok |-> FALSE]
    ELSE IF p.d15 # 0 THEN
        [status |-> "INVALID RESPONSE", notes |-> NoteD15(p),
         device_found |-> FALSE, thermocouple_ok |-> FALSE]
    ELSE IF p.device_id_bit # 0 THEN
        [status |-> "WRONG DEVICE", notes |-> NoteDeviceId(p),
         device_found |-> FALSE, thermocouple_ok |-> FALSE]
    ELSE IF p.open_flag = 1 THEN
        [status |-> "DETECTED -- THERMOCOUPLE OPEN", notes |-> NoteOpen,
         device_found |-> TRUE, thermocouple_ok |-> TRUE]
    ELSE
        [status |-> "DETECTED -- OK", notes |-> NoteOk,
         device_found |-> TRUE, thermocouple_ok |-> TRUE]

\* The if/elif chain of detect_max6675: the entries of result it sets.
\* device_found and thermocouple_ok keep their initial False where the
\* branch does not set them.
Classify(w, p) ==
    IF w = 65535 THEN
        [status |-> "NOT DETECTED", notes |-> NoteFloating,
         device_found |-> FALSE, thermocouple_ok |-> FALSE]
    ELSE IF w = 0 THEN
        [status |-> "NOT DETECTED", notes |-> NoteStuckLow,
         device_found |-> FALSE, thermocouple_ok |-> FALSE]
    ELSE IF p.d15 # 0 THEN
        [status |-> "INVALID RESPONSE", notes |-> NoteD15(p),
         device_found |-> FALSE, thermocouple_ok |-> FALSE]
    ELSE IF p.device_id_bit # 0 THEN
        [status |-> "WRONG DEVICE", notes |-> NoteDeviceId(p),
         device_found |-> FALSE, thermocouple_ok |-> FALSE]
    ELSE IF p.open_flag = 1 THEN
        [status |-> "DETECTED -- THERMOCOUPLE OPEN", notes |-> NoteOpen,
         device_found |-> TRUE, thermocouple_ok |-> FALSE]
    ELSE
        [status |-> "DETECTED -- OK", notes |-> NoteOk,
         device_found |-> TRUE, thermocouple_ok |-> TRUE]

-----------------------------------------------------------------------------
(* detect_max6675: the except clauses, first match in source order         *)

NotePermission == Note("Permission denied on ", <<DevNode>>)

NoteSpidev == Note("Your spidev version may not support no_cs mode. ", <<>>)

NoteOsError(e) == Note("OS error opening ", <<DevNode, e.msg>>)

NoteError(e) == Note("Unexpected error: ", <<e.msg>>)

\* The clauses with everything that is not access-denied or an attribute
\* error taken by the OSError clause.
Handler_AllAsOsError(e) ==
    IF IsInstance(e.kind, "PermissionError") THEN
        [status |-> "PERMISSION DENIED", notes |-> NotePermission]
    ELSE IF IsInstance(e.kind, "AttributeError") THEN
        [status |-> "SPIDEV VERSION ERROR", notes |-> NoteSpidev]
    ELSE
        [status |-> "OS ERROR", notes |-> NoteOsError(e)]

\* The clauses with except OSError ahead of except PermissionError.
Handler_OsFirst(e) ==
    IF IsInstance(e.kind, "OSError") THEN
        [status |-> "OS ERROR", notes |-> NoteOsError(e)]
    ELSE IF IsInstance(e.kind, "PermissionError") THEN
        [status |-> "PERMISSION DENIED", notes |-> NotePermission]
    ELSE IF IsInstance(e.kind, "AttributeError") THEN
        [status |-> "SPIDEV VERSION ERROR", notes |-> NoteSpidev]
    ELSE
        [status |-> "ERROR", notes |-> NoteError(e)]

Handler(e) ==
    IF IsInstance(e.kind, "PermissionError") THEN
        [status |-> "PERMISSION DENIED", notes |-> NotePermission]
    ELSE IF IsInstance(e.kind, "AttributeError") THEN
        [status |-> "SPIDEV VERSION ERROR", notes |-> NoteSpidev]
    ELSE IF IsInstance(e.kind, "OSError") THEN
        [status |-> "OS ERROR", notes |-> NoteOsError(e)]
    ELSE
        [status |-> "ERROR", notes |-> NoteError(e)]

-----------------------------------------------------------------------------
(* State                                                                   *)

\* The result dict as detect_max6675 first builds it.
FreshResult(i) ==
    [ cs_index        |-> i,
      cs_label        |-> <<"CS", i>>,
      cs_gpio_pin     |-> CS_PINS[i],
      dev_node        |-> DevNode,
      node_exists     |-> FALSE,
      opened          |-> FALSE,
      raw_hex         |-> None,
      raw_bin         |-> None,
      temp_c          |-> None,
      temp_f          |-> None,
      open_flag       |-> None,
      device_found    |-> FALSE,
      thermocouple_ok |-> FALSE,
      status          |-> "UNKNOWN",
      notes           |-> Note("", <<>>) ]

NoteNoNode == Note(" not found. Enable SPI in raspi-config or ", <<DevNode>>)

Log(call) == Append(events, <<call, cur>>)

\* The locals of a detect_max6675 call that has not yet reached them.
NoWire == F(0, 0, 0, 0, 0)

NoParsed == parse_max6675(0)

\* Before main() has done anything: the pins are not configured.
Init ==
    /\ pc = "main"
    /\ cur = 0
    /\ cs = [i \in {0, 1} |-> "UNSET"]
    /\ spi_open = FALSE
    /\ exc = NoExc
    /\ wire = NoWire
    /\ raw_bytes = None
    /\ raw = None
    /\ parsed = NoParsed
    /\ node = FALSE
    /\ result = FreshResult(0)
    /\ results = <<>>
    /\ events = <<>>

-----------------------------------------------------------------------------
(* main: gpio_setup, then the first detect_max6675 call                    *)

gpio_setup ==
    /\ pc = "main"
    /\ cs' = [i \in {0, 1} |-> "HIGH"]
    /\ cur' = 0
    /\ pc' = "detect"
    /\ UNCHANGED <<spi_open, exc, wire, raw_bytes, raw, parsed, node,
                   result, results, events>>

-----------------------------------------------------------------------------
(* detect_max6675(cur)                                                     *)

\* DetectStart without the early return: the call goes on to open the bus
\* although the node is absent.
DetectStart_NoReturn ==
    /\ pc = "detect"
    /\ exc' = NoExc
    /\ wire' = NoWire
    /\ raw_bytes' = None
    /\ raw' = None
    /\ parsed' = NoParsed
    /\ \E exists \in BOOLEAN :
         /\ node' = exists
         /\ IF ~exists
            THEN result' = [FreshResult(cur) EXCEPT
                              !.status = "NO SPI NODE", !.notes = NoteNoNode]
            ELSE result' = [FreshResult(cur) EXCEPT !.node_exists = TRUE]
    /\ pc' = "open"
    /\ UNCHANGED <<cur, cs, spi_open, results, events>>

\* DetectStart with the node-absent branch leaving the status as built.
DetectStart_NoStatus ==
    /\ pc = "detect"
    /\ exc' = NoExc
    /\ wire' = NoWire
    /\ raw_bytes' = None
    /\ raw' = None
    /\ parsed' = NoParsed
    /\ \E exists \in BOOLEAN :
         /\ node' = exists
         /\ IF ~exists
            THEN /\ result' = [FreshResult(cur) EXCEPT !.notes = NoteNoNode]
                 /\ pc' = "return"
            ELSE /\ result' = [FreshResult(cur) EXCEPT !.node_exists = TRUE]
                 /\ pc' = "open"
    /\ UNCHANGED <<cur, cs, spi_open, results, events>>

\* The result dict is built and the device node looked up; without the node
\* the call returns, with it the SpiDev object is made.
DetectStart ==
    /\ pc = "detect"
    /\ exc' = NoExc
    /\ wire' = NoWire
    /\ raw_bytes' = None
    /\ raw' = None
    /\ parsed' = NoParsed
    /\ \E exists \in BOOLEAN :
         /\ node' = exists
         /\ IF ~exists
            THEN /\ result' = [FreshResult(cur) EXCEPT
                                 !.status = "NO SPI NODE", !.notes = NoteNoNode]
                 /\ pc' = "return"
            ELSE /\ result' = [FreshResult(cur) EXCEPT !.node_exists = TRUE]
                 /\ pc' = "open"
    /\ UNCHANGED <<cur, cs, spi_open, results, events>>

\* An I/O call raises e: control goes to the except clauses.
Raise(e) ==
    /\ exc' = e
    /\ pc' = "except"

\* spi.open(SPI_BUS, 0); result["opened"] = True
Open ==
    /\ pc = "open"
    /\ events' = Log("open")
    /\ \/ /\ spi_open' = TRUE
          /\ result' = [result EXCEPT !.opened = TRUE]
          /\ pc' = "config"
          /\ UNCHANGED exc
       \/ /\ \E e \in Raised(OpenRaises) : Raise(e)
          /\ UNCHANGED <<spi_open, result>>
    /\ UNCHANGED <<cur, cs, wire, raw_bytes, raw, parsed, node, results>>

\* spi.max_speed_hz, spi.mode, spi.no_cs
Configure ==
    /\ pc = "config"
    /\ events' = Log("config")
    /\ \/ /\ pc' = "cs_high1"
          /\ UNCHANGED exc
       \/ \E e \in Raised(ConfigRaises) : Raise(e)
    /\ UNCHANGED <<cur, cs, spi_open, wire, raw_bytes, raw, parsed, node,
                   result, results>>

-----------------------------------------------------------------------------
(* read_max6675_raw(spi, cur)                                              *)

\* GPIO.output(CS_PINS[cur], level), from position `at`, going on at `next`.
GpioOutput(at, call, level, next) ==
    /\ pc = at
    /\ events' = Log(call)
    /\ \/ /\ cs' = [cs EXCEPT ![cur] = level]
          /\ pc' = next
          /\ UNCHANGED exc
       \/ /\ \E e \in Raised(GpioRaises) : Raise(e)
          /\ UNCHANGED cs

\* time.sleep(seconds)
Sleep(at, call, next) ==
    /\ pc = at
    /\ events' = Log(call)
    /\ pc' = next
    /\ UNCHANGED <<cur, cs, spi_open, exc, wire, raw_bytes, raw, parsed, node,
                   result, results>>

\* cs_high(cs_index): trigger a new conversion
CsHighTrigger ==
    /\ GpioOutput("cs_high1", "cs_high", "HIGH", "sleep_conv")
    /\ UNCHANGED <<cur, spi_open, wire, raw_bytes, raw, parsed, node, result, results>>

\* time.sleep(CONVERSION_TIME_S)
SleepConversion == Sleep("sleep_conv", "sleep_conversion", "cs_low")

\* cs_low with the exchange right after it, the settle wait left out.
CsLow_NoSettle ==
    /\ GpioOutput("cs_low", "cs_low", "LOW", "xfer")
    /\ UNCHANGED <<cur, spi_open, wire, raw_bytes, raw, parsed, node, result, results>>

\* cs_low(cs_index)
CsLow ==
    /\ GpioOutput("cs_low", "cs_low", "LOW", "sleep_settle")
    /\ UNCHANGED <<cur, spi_open, wire, raw_bytes, raw, parsed, node, result, results>>

\* time.sleep(CS_SETTLE_TIME_S)
SleepSettle == Sleep("sleep_settle", "sleep_settle", "xfer")

\* The two bytes of a word, first byte first.
BytesOf(w) == <<w \div 256, w % 256>>

\* raw_bytes = spi.xfer2([0x00, 0x00]): the device answers with any word.
Xfer(words) ==
    /\ pc = "xfer"
    /\ events' = Log("xfer2")
    /\ \/ /\ \E f \in words :
               /\ wire' = f
               /\ raw_bytes' = Some(BytesOf(EncodeWord(f)))
          /\ pc' = "cs_high2"
          /\ UNCHANGED exc
       \/ /\ \E e \in Raised(XferRaises) : Raise(e)
          /\ UNCHANGED <<wire, raw_bytes>>
    /\ UNCHANGED <<cur, cs, spi_open, raw, parsed, node, result, results>>

XferSample == Xfer(SampleFields)

\* (raw_bytes[0] << 8) | raw_bytes[1], the bytes being below 256
Combine(b) == b[1] * 256 + b[2]

\* cs_high(cs_index) to release CS, then the return of the word
CsHighRelease ==
    /\ GpioOutput("cs_high2", "cs_high", "HIGH", "parse")
    /\ raw' = IF pc' = "parse" THEN Some(Combine(raw_bytes[1])) ELSE raw
    /\ UNCHANGED <<cur, spi_open, wire, raw_bytes, parsed, node, result, results>>

-----------------------------------------------------------------------------
(* detect_max6675(cur), after the read                                     *)

\* parsed = parse_max6675(raw), the entries copied from it, and the
\* if/elif chain
ParseAndClassify ==
    /\ pc = "parse"
    /\ LET p == parse_max6675(raw[1])
           c == Classify(raw[1], p)
       IN  /\ parsed' = p
           /\ result' = [result EXCEPT
                           !.raw_hex         = Some(p.raw_hex),
                           !.raw_bin         = Some(p.raw_bin),
                           !.open_flag       = Some(p.open_flag),
                           !.temp_c          = Some(p.temp_c),
                           !.temp_f          = Some(p.temp_f),
                           !.device_found    = c.device_found,
                           !.thermocouple_ok = c.thermocouple_ok,
                           !.status          = c.status,
                           !.notes           = c.notes]
    /\ pc' = "finally"
    /\ UNCHANGED <<cur, cs, spi_open, exc, wire, raw_bytes, raw, node,
                   results, events>>

\* Except with the close left to the success path: no finally.
Except_NoFinally ==
    /\ pc = "except"
    /\ LET h == Handler(exc)
       IN  result' = [result EXCEPT !.status = h.status, !.notes = h.notes]
    /\ pc' = "return"
    /\ UNCHANGED <<cur, cs, spi_open, exc, wire, raw_bytes, raw, parsed, node,
                   results, events>>

\* The except clause that matches the exception in flight
Except ==
    /\ pc = "except"
    /\ LET h == Handler(exc)
       IN  result' = [result EXCEPT !.status = h.status, !.notes = h.notes]
    /\ pc' = "finally"
    /\ UNCHANGED <<cur, cs, spi_open, exc, wire, raw_bytes, raw, parsed, node,
                   results, events>>

\* The finally clause without the spi.close() call.
Finally_NoClose ==
    /\ pc = "finally"
    /\ pc' = "return"
    /\ UNCHANGED <<cur, cs, spi_open, exc, wire, raw_bytes, raw, parsed, node,
                   result, results, events>>

\* finally: spi.close(), whatever it raises being dropped.  close(2)
\* releases the descriptor also when it reports an error.
Finally ==
    /\ pc = "finally"
    /\ spi_open' = FALSE
    /\ \/ events' = Log("close")
       \/ /\ spi_open
          /\ events' = Log("close_raised")
    /\ pc' = "return"
    /\ UNCHANGED <<cur, cs, exc, wire, raw_bytes, raw, parsed, node,
                   result, results>>

-----------------------------------------------------------------------------
(* main: the results list and gpio_cleanup                                 *)

\* Return with a failed CS0 ending the scan.
Return_StopOnFailure ==
    /\ pc = "return"
    /\ results' = Append(results, result)
    /\ IF cur = 0 /\ exc = NoExc
       THEN /\ cur' = 1
            /\ pc' = "detect"
       ELSE /\ cur' = cur
            /\ pc' = "cleanup"
    /\ UNCHANGED <<cs, spi_open, exc, wire, raw_bytes, raw, parsed, node,
                   result, events>>

\* return result: the element of main's list; the next call or the end
Return ==
    /\ pc = "return"
    /\ results' = Append(results, result)
    /\ IF cur = 0
       THEN /\ cur' = 1
            /\ pc' = "detect"
       ELSE /\ cur' = cur
            /\ pc' = "cleanup"
    /\ UNCHANGED <<cs, spi_open, exc, wire, raw_bytes, raw, parsed, node,
                   result, events>>

\* GPIO.cleanup(): the pins go back to inputs
gpio_cleanup ==
    /\ pc = "cleanup"
    /\ cs' = [i \in {0, 1} |-> "INPUT"]
    /\ pc' = "done"
    /\ UNCHANGED <<cur, spi_open, exc, wire, raw_bytes, raw, parsed, node,
                   result, results, events>>

\* print_result: the temperature line is printed for this result
PrintsTemperature(r) == r.thermocouple_ok

Next ==
    \/ gpio_setup
    \/ DetectStart
    \/ Open
    \/ Configure
    \/ CsHighTrigger
    \/ SleepConversion
    \/ CsLow
    \/ SleepSettle
    \/ XferSample
    \/ CsHighRelease
    \/ ParseAndClassify
    \/ Except
    \/ Finally
    \/ Return
    \/ gpio_cleanup

Spec == Init /\ [][Next]_vars

-----------------------------------------------------------------------------
(* The classification of every 16-bit word                                 *)

\* The scan at the point where read_max6675_raw has returned on CS1, CS0
\* having had no device node, for any word on the wire.
InitWord ==
    /\ pc = "parse"
    /\ cur = 1
    /\ cs = [i \in {0, 1} |-> "HIGH"]
    /\ spi_open = TRUE
    /\ exc = NoExc
    /\ wire \in AllFields
    /\ raw_bytes = Some(BytesOf(EncodeWord(wire)))
    /\ raw = Some(Combine(raw_bytes[1]))
    /\ parsed = NoParsed
    /\ node = TRUE
    /\ result = [FreshResult(1) EXCEPT !.node_exists = TRUE, !.opened = TRUE]
    /\ results = << [FreshResult(0) EXCEPT
                       !.status = "NO SPI NODE", !.notes = NoteNoNode] >>
    /\ events = << <<"open", 1>>, <<"config", 1>>, <<"cs_high", 1>>,
                   <<"sleep_conversion", 1>>, <<"cs_low", 1>>,
                   <<"sleep_settle", 1>>, <<"xfer2", 1>>, <<"cs_high", 1>> >>

NextWord ==
    \/ ParseAndClassify
    \/ Finally
    \/ Return
    \/ gpio_cleanup

SpecWord == InitWord /\ [][NextWord]_vars

-----------------------------------------------------------------------------
(* Properties                                                              *)

\* The running call has classified the word of a successful exchange.
Classified == pc \in {"finally", "return"} /\ exc = NoExc /\ raw # None

\* The finished results whose raw word is w.
WithWord(w) == {i \in 1..Len(results) : results[i].raw_hex = Some(RawHex(w))}

\* C1: after a successful exchange the word 0xFFFF always gives the
\* not-detected outcome for a floating line and the word 0x0000 the
\* not-detected outcome for a line stuck low; neither gives INVALID
\* RESPONSE or WRONG DEVICE, although 0xFFFF decodes to d15 = 1 and
\* device_id_bit = 1.
C1_SentinelsFirst ==
    /\ (Classified /\ raw = Some(65535)) =>
          /\ result.status = "NOT DETECTED"
          /\ result.notes = NoteFloating
          /\ parsed.d15 = 1 /\ parsed.device_id_bit = 1
    /\ (Classified /\ raw = Some(0)) =>
          /\ result.status = "NOT DETECTED"
          /\ result.notes = NoteStuckLow
    /\ (Classified /\ raw \in {Some(65535), Some(0)}) =>
          result.status \notin {"INVALID RESPONSE", "WRONG DEVICE"}

C1_Witness ==
    /\ Classified
    /\ raw = Some(65535)
    /\ parsed.d15 = 1
    /\ parsed.device_id_bit = 1
    /\ result.status = "NOT DETECTED"

\* C2, as claimed: the status for the word 0x0000 differs from the status
\* for the word 0xFFFF.
C2_StatusesDiffer ==
    \A i \in WithWord(65535) : \A j \in WithWord(0) :
        results[i].status # results[j].status

\* C2, amended: the words 0x0000 and 0xFFFF give one and the same status,
\* NOT DETECTED, and are told apart by the note only.
C2_SameStatusOtherNote ==
    \A i \in WithWord(65535) : \A j \in WithWord(0) :
        /\ results[i].status = "NOT DETECTED"
        /\ results[j].status = "NOT DETECTED"
        /\ results[i].notes # results[j].notes

C2_Witness ==
    /\ pc = "done"
    /\ WithWord(65535) = {1}
    /\ WithWord(0) = {2}

\* The status the first-match order gives a word with these bits.
FirstMatch(f) ==
    IF f.sign = 1 THEN "INVALID RESPONSE"
    ELSE IF f.id = 1 THEN "WRONG DEVICE"
    ELSE IF f.open = 1 THEN "DETECTED -- THERMOCOUPLE OPEN"
    ELSE "DETECTED -- OK"

\* C3: every word other than 0xFFFF and 0x0000 gets its status by first
\* match: bit 15 set, INVALID RESPONSE; else bit 1 set, WRONG DEVICE; else
\* bit 2 set, DETECTED -- THERMOCOUPLE OPEN; else DETECTED -- OK.
C3_FirstMatch ==
    (Classified /\ raw \notin {Some(65535), Some(0)}) =>
        result.status = FirstMatch(wire)

C3_Witness ==
    /\ Classified
    /\ wire = F(1, 7, 0, 1, 0)
    /\ result.status = "INVALID RESPONSE"

\* A word made for the round trip: sign, device id and open flag 0.
RoundTripWord == wire.sign = 0 /\ wire.id = 0 /\ wire.open = 0

\* C4, as claimed: every count in 0..4095, encoded with sign, device id and
\* open flag 0, decodes to the same count and classifies DETECTED -- OK.
C4_RoundTrip ==
    (Classified /\ RoundTripWord /\ wire.d0 = 0) =>
        /\ parsed.temp_counts = wire.count
        /\ result.status = "DETECTED -- OK"

\* C4, amended: the count is always recovered, and the status is
\* DETECTED -- OK except for the encoded word 0x0000 (count 0, bit 0
\* clear), which is NOT DETECTED with the stuck-low note.
C4_RoundTripButZero ==
    (Classified /\ RoundTripWord) =>
        /\ parsed.temp_counts = wire.count
        /\ (wire.count # 0 \/ wire.d0 # 0) => result.status = "DETECTED -- OK"
        /\ (wire.count = 0 /\ wire.d0 = 0) =>
              /\ result.status = "NOT DETECTED"
              /\ result.notes = NoteStuckLow

C4_Witness ==
    /\ Classified
    /\ wire = F(0, 4095, 0, 0, 0)
    /\ parsed.temp_counts = 4095
    /\ result.status = "DETECTED -- OK"

\* The status the running call's own node check, exception and word ask for.
OwnStatus ==
    IF ~node THEN "NO SPI NODE"
    ELSE IF exc.kind = "PermissionError" THEN "PERMISSION DENIED"
    ELSE IF exc.kind = "AttributeError" THEN "SPIDEV VERSION ERROR"
    ELSE IF exc.kind \in {"OSError", "FileNotFoundError"} THEN "OS ERROR"
    ELSE IF exc.kind = "RuntimeError" THEN "ERROR"
    ELSE IF EncodeWord(wire) \in {0, 65535} THEN "NOT DETECTED"
    ELSE FirstMatch(wire)

\* C5: a scan ends with exactly two results, CS0's then CS1's, whatever
\* happened on CS0, and CS1's status is the one its own node check,
\* exception and word ask for.
C5_TwoResults ==
    /\ pc \in {"cleanup", "done"} =>
          /\ Len(results) = 2
          /\ results[1].cs_index = 0
          /\ results[2].cs_index = 1
          /\ results[2].status = OwnStatus
    /\ (pc = "return" /\ cur = 1) =>
          /\ Len(results) = 1
          /\ result.status = OwnStatus

C5_Witness ==
    /\ pc = "done"
    /\ results[1].status = "PERMISSION DENIED"
    /\ results[2].status = "DETECTED -- OK"

\* The I/O calls made for the running call's cs_index.
OwnEvents == {k \in 1..Len(events) : events[k][2] = cur}

\* C6, as claimed: when the acquisition for a cs_index finishes, by success
\* or by any failure, that chip-select line is high.
C6_CsHighOnReturn == pc = "return" => cs[cur] = "HIGH"

\* C7: when detect_max6675 has returned, by any path, the bus handle it
\* opened is closed.
C7_HandleClosed ==
    pc \in {"main", "detect", "return", "cleanup", "done"} => ~spi_open

C7_Witness ==
    /\ pc = "return"
    /\ result.opened
    /\ exc.kind = "OSError"
    /\ \E k \in OwnEvents : events[k][1] = "xfer2"
    /\ ~spi_open

\* C8: with the device node absent the result is NO SPI NODE with both
\* flags false, and nothing was done for that cs_index: no open, no pin
\* change, no wait, no exchange.
C8_NoNodeNoIO ==
    (pc = "return" /\ ~node) =>
        /\ result.status = "NO SPI NODE"
        /\ ~result.node_exists
        /\ ~result.opened
        /\ OwnEvents = {}
        /\ cs[cur] = "HIGH"
        /\ ~spi_open

C8_Witness ==
    /\ pc = "return"
    /\ ~node
    /\ cur = 1
    /\ events # <<>>
    /\ result.status = "NO SPI NODE"

\* C9, as claimed: after a successful two-byte exchange the result carries
\* the status classified from the received word, also when the final CS
\* release or the bus close fails.
C9_ReleaseFailureSwallowed ==
    (pc = "return" /\ raw_bytes # None) =>
        result.status =
            (IF EncodeWord(wire) \in {0, 65535} THEN "NOT DETECTED"
             ELSE FirstMatch(wire))

\* C10, as claimed: a failure that is neither access-denied nor an OS-level
\* fault gives ERROR with the failure's description.
C10_OtherIsError ==
    (pc = "return" /\ exc # NoExc
       /\ exc.kind \notin {"PermissionError", "FileNotFoundError", "OSError"}) =>
        /\ result.status = "ERROR"
        /\ result.notes = Note("Unexpected error: ", <<exc.msg>>)

\* C10, amended: a failure that is neither access-denied, nor an OS-level
\* fault, nor an AttributeError gives ERROR with the failure's description;
\* an AttributeError gives SPIDEV VERSION ERROR with a fixed note.
C10_OtherButAttributeIsError ==
    /\ (pc = "return" /\ exc # NoExc
          /\ exc.kind \notin {"PermissionError", "FileNotFoundError", "OSError",
                              "AttributeError"}) =>
           /\ result.status = "ERROR"
           /\ result.notes = Note("Unexpected error: ", <<exc.msg>>)
    /\ (pc = "return" /\ exc.kind = "AttributeError") =>
           /\ result.status = "SPIDEV VERSION ERROR"
           /\ result.notes = NoteSpidev

C10_Witness ==
    /\ pc = "return"
    /\ exc.kind = "RuntimeError"
    /\ result.status = "ERROR"
    /\ result.notes = Note("Unexpected error: ", <<"Input/output error">>)

\* C11: an access-denied fault raised by the open or the exchange gives
\* PERMISSION DENIED, never OS ERROR; every other OS-level fault gives
\* OS ERROR with the fault's description.
C11_PermissionBeforeOsError ==
    /\ (pc = "return" /\ exc.kind = "PermissionError") =>
           /\ result.status = "PERMISSION DENIED"
           /\ result.notes = Note("Permission denied on ", <<DevNode>>)
    /\ (pc = "return" /\ exc.kind \in {"OSError", "FileNotFoundError"}) =>
           /\ result.status = "OS ERROR"
           /\ result.notes = Note("OS error opening ", <<DevNode, exc.msg>>)

C11_Witness ==
    /\ pc = "return"
    /\ exc.kind = "PermissionError"
    /\ \E k \in OwnEvents : events[k][1] = "xfer2"
    /\ result.status = "PERMISSION DENIED"

\* The word of a successful read has been decoded.
Decoded == raw # None /\ pc # "parse"

\* C12: for every 16-bit word the decoder returns d15 = bit 15, the count =
\* bits 14-3, within 0..4095, open_flag = bit 2 and device_id_bit = bit 1,
\* with the Celsius value count * 25 hundredths and the Fahrenheit value
\* count * 45 + 3200 hundredths; 0x0C98 gives count 403 and 100.75 C.
C12_DecodedFields ==
    Decoded =>
        /\ parsed.d15 = wire.sign
        /\ parsed.temp_counts = wire.count
        /\ parsed.temp_counts \in 0..4095
        /\ parsed.open_flag = wire.open
        /\ parsed.device_id_bit = wire.id
        /\ parsed.temp_c = wire.count * 25
        /\ parsed.temp_f = wire.count * 45 + 3200
        /\ raw = Some(3224) => (parsed.temp_counts = 403 /\ parsed.temp_c = 10075)

C12_Witness ==
    /\ Decoded
    /\ raw = Some(3224)
    /\ parsed.temp_counts = 403
    /\ parsed.temp_c = 10075
    /\ parsed.temp_f = 21335

\* The results detect_max6675 has returned or is returning.
Returned ==
    {results[i] : i \in 1..Len(results)} \cup
        (IF pc = "return" THEN {result} ELSE {})

\* C13: a result marks its temperature good, and has it printed, exactly
\* when its status is DETECTED -- OK, and then both temperatures are there;
\* device_found is true exactly for DETECTED -- OK and DETECTED --
\* THERMOCOUPLE OPEN.
C13_TrustedIffOk ==
    \A r \in Returned :
        /\ r.thermocouple_ok <=> r.status = "DETECTED -- OK"
        /\ PrintsTemperature(r) <=> r.status = "DETECTED -- OK"
        /\ r.thermocouple_ok => (r.temp_c # None /\ r.temp_f # None)
        /\ r.device_found <=>
              r.status \in {"DETECTED -- OK", "DETECTED -- THERMOCOUPLE OPEN"}

C13_Witness ==
    /\ pc = "done"
    /\ results[1].status = "DETECTED -- THERMOCOUPLE OPEN"
    /\ results[1].device_found
    /\ ~PrintsTemperature(results[1])
    /\ results[1].temp_c # None
    /\ results[2].status = "DETECTED -- OK"
    /\ PrintsTemperature(results[2])

\* The calls made for cs_index i, in order.
CallsOf(i) ==
    LET ForIndex(e) == e[2] = i
        own == SelectSeq(events, ForIndex)
    IN  [k \in 1..Len(own) |-> own[k][1]]

\* The calls among them that read_max6675_raw makes.
ReadCallsOf(i) ==
    LET InRead(c) == c \notin {"open", "config", "close", "close_raised"}
    IN  SelectSeq(CallsOf(i), InRead)

ReadOrder ==
    <<"cs_high", "sleep_conversion", "cs_low", "sleep_settle", "xfer2", "cs_high">>

IsPrefix(a, b) == Len(a) <= Len(b) /\ a = SubSeq(b, 1, Len(a))

\* C14: the calls of every read come in the order cs high, conversion
\* wait, cs low, settle wait, exchange, cs high; the conversion wait starts
\* with the line high, the settle wait and the exchange with it low, and a
\* word is returned only after the whole sequence, with the line high.
C14_ReadOrder ==
    /\ \A i \in {0, 1} : IsPrefix(ReadCallsOf(i), ReadOrder)
    /\ pc = "sleep_conv" => cs[cur] = "HIGH"
    /\ pc = "sleep_settle" => cs[cur] = "LOW"
    /\ pc = "xfer" =>
          /\ cs[cur] = "LOW"
          /\ ReadCallsOf(cur) = SubSeq(ReadOrder, 1, 4)
    /\ (raw # None /\ pc \in {"parse", "finally", "return"}) =>
          /\ ReadCallsOf(cur) = ReadOrder
          /\ cs[cur] = "HIGH"

C14_Witness ==
    /\ pc = "parse"
    /\ cur = 1
    /\ ReadCallsOf(0) = ReadOrder
    /\ ReadCallsOf(1) = ReadOrder
    /\ cs[1] = "HIGH"

\* The positions in the log of the close of cs_index i's handle.
ClosesOf(i) ==
    {k \in 1..Len(events) :
        events[k][2] = i /\ events[k][1] \in {"close", "close_raised"}}

\* C15: an exchange happens only on an open handle; the handle of a call
\* is closed exactly once, after every other call made for that cs_index;
\* the calls for CS1 all come after those for CS0, and no handle is open
\* when one is opened, so at most one handle is open at any time.
C15_HandleSerial ==
    /\ pc = "xfer" => (spi_open /\ result.opened)
    /\ pc = "open" => ~spi_open
    /\ spi_open => pc \notin {"main", "detect", "open", "return", "cleanup", "done"}
    /\ \A k, l \in 1..Len(events) : k < l => events[k][2] <= events[l][2]
    /\ \A i \in {0, 1} :
          /\ Cardinality(ClosesOf(i)) <= 1
          /\ \A k \in ClosesOf(i) : \A l \in 1..Len(events) :
                events[l][2] = i => l <= k
    /\ (pc = "return" /\ node) => Cardinality(ClosesOf(cur)) = 1
    /\ \A i \in 1..Len(results) :
          results[i].node_exists => Cardinality(ClosesOf(results[i].cs_index)) = 1

C15_Witness ==
    /\ pc = "xfer"
    /\ cur = 1
    /\ spi_open
    /\ results[1].opened
    /\ \E k \in ClosesOf(0) : events[k - 1] = <<"cs_high", 0>>

\* C16, as claimed: at most one of the two chip-select lines is low at any
\* point of a scan, and the other line is high at every exchange.
C16_OneLineLow ==
    /\ ~(cs[0] = "LOW" /\ cs[1] = "LOW")
    /\ pc = "xfer" => cs[1 - cur] = "HIGH"

ErrorStatuses ==
    {"NO SPI NODE", "PERMISSION DENIED", "SPIDEV VERSION ERROR", "OS ERROR", "ERROR"}

ClassifierStatuses ==
    {"NOT DETECTED", "INVALID RESPONSE", "WRONG DEVICE",
     "DETECTED -- THERMOCOUPLE OPEN", "DETECTED -- OK"}

\* The entries of a result that a decoded word fills.
WordEntries(r) == <<r.raw_hex, r.raw_bin, r.open_flag, r.temp_c, r.temp_f>>

\* C17: a returned result never has the status UNKNOWN; opened is true only
\* with node_exists; the raw word, open flag and temperatures are there
\* only after a successful open and exchange, all together, so a result
\* with an error status carries none of them.
C17_ResultConsistent ==
    /\ \A r \in Returned :
          /\ r.status \in ErrorStatuses \cup ClassifierStatuses
          /\ r.opened => r.node_exists
          /\ r.status \in ErrorStatuses => WordEntries(r) = <<None, None, None, None, None>>
          /\ r.status \in ClassifierStatuses =>
                (r.opened /\ \A k \in 1..5 : WordEntries(r)[k] # None)
    /\ pc = "return" =>
          /\ result.status = "NO SPI NODE" <=> ~node
          /\ result.status \in ClassifierStatuses <=> (exc = NoExc /\ raw # None)
          /\ result.raw_hex # None => (raw_bytes # None /\ raw # None)
          /\ result.opened <=> (node /\ "config" \in {events[k][1] : k \in OwnEvents})

C17_Witness ==
    /\ pc = "return"
    /\ exc.kind = "RuntimeError"
    /\ raw_bytes # None
    /\ result.opened
    /\ result.status = "ERROR"
    /\ WordEntries(result) = <<None, None, None, None, None>>

=============================================================================
